---- MODULE Spec2Model ----
(***************************************************************************)
(* The job-queue coordination layer of the GPU workers: the BullMQ-style   *)
(* queue client (gpu-worker/worker/queue_client.py) over a shared Redis    *)
(* store, and the worker main loops (gpu-worker/workers/*/main.py) that    *)
(* claim, process, settle and notify.  Every Redis command and every call  *)
(* of an external collaborator (Executor, Result Sink, Notifier) is one    *)
(* step, so that workers interleave between commands.                      *)
(***************************************************************************)
EXTENDS Integers, Sequences, FiniteSets, TLC

\* ------------------------------------------------------------------ bounds
\* Redis commands that may raise redis.RedisError in one behaviour.
MaxStoreErrors == 1
\* Worker processes that may be killed in one behaviour.
MaxCrashes == 1
\* Progress callbacks the Executor makes during one generate() call.
MaxCallbacks == 1

\* --------------------------------------------------------- program constants
\* get_next_job(timeout=5) / idle_seconds += 5
PollTimeout == 5
\* settings.MAX_IDLE_SECONDS (environment-configured; 10 is the spec's example)
MAX_IDLE_SECONDS == 10

Workers == {"w1", "w2"}
JobIds == {"j1", "j2"}
Models == {"zimage", "wav2lip"}

\* BullMQClient(settings.REDIS_URL, "generate:<model>")
QueueNameOf(m) ==
    CASE m = "zimage" -> "generate:zimage"
      [] m = "wav2lip" -> "generate:wav2lip"
      [] m = "ltx2" -> "generate:ltx2"

QueueNames == {QueueNameOf(m) : m \in Models}

\* Progress written after each pre-Executor stage (validation / download).
PreMarkers(m) ==
    CASE m = "zimage" -> <<5>>
      [] m = "wav2lip" -> <<10, 20>>
      [] m = "ltx2" -> <<10>>

\* Progress written when the Executor has returned, before the upload.
UploadMarker == 90
\* Mutant: the last marker is not written, the upload marker stays.
FinalProgress_Stale == UploadMarker
\* Progress written when the Result Sink calls have returned.
FinalProgress == 100

\* Mutant: the product is rounded to the nearest integer.
IntScale_Round(p, num) == (p * num + 50) \div 100

\* The products p * f, f the IEEE double nearest num/100 and p in 0..100,
\* that come out just below the integer they equal in exact arithmetic:
\* 90 * 0.7 is 62.99999999999999.
DoubleBelow(p, num) == num = 70 /\ p = 90

\* int(p * f) for f = num/100 and p >= 0: truncation of the double product,
\* which is the floor of the exact product except where DoubleBelow.
IntScale(p, num) ==
    IF DoubleBelow(p, num) THEN (p * num) \div 100 - 1 ELSE (p * num) \div 100

\* Mutant: the Executor's value is written as it comes.
on_progress_Unscaled(m, p) == p

\* on_progress(p): the Executor's 0..100 rescaled into the inference sub-range.
on_progress(m, p) ==
    CASE m = "zimage" -> 5 + IntScale(p, 85)
      [] m = "wav2lip" -> 20 + IntScale(p, 70)
      [] m = "ltx2" -> 10 + IntScale(p, 80)

\* Values the Executor passes to its progress callback.
ExecProgress == {40, 100}

\* str(e) of the exceptions the Executor raises; "" is the message of an
\* exception built without arguments (RuntimeError(), a bare assert).
ErrMsgs == {"", "boom"}
\* str(e) of a failed download, upload or notification.
IOErrMsg == "io error"

\* An optional value: <<>> is "not set", <<v>> is v.
Absent == <<>>
Some(v) == <<v>>

\* ------------------------------------------------------------------ payloads
\* The hash field `data` as the producer wrote it: JSON text that either
\* decodes to an object (with or without a "type" key, with or without the
\* inputs the worker requires) or does not decode.
WellFormed(t, inp) ==
    [wellformed |-> TRUE, raises |-> "", type |-> t, inputs |-> inp]
Malformed ==
    [wellformed |-> FALSE, raises |-> "JSONDecodeError", type |-> "",
     inputs |-> FALSE]
\* JSON text that decodes, but not to an object ("[1, 2]", "null", "42"):
\* data.get(...) raises AttributeError.
NotAMap ==
    [wellformed |-> FALSE, raises |-> "AttributeError", type |-> "",
     inputs |-> FALSE]

\* What a producer may enqueue: the hash's own `type` field (absent or a
\* queue name) and the payload.
Typed(q, inp) == [htype |-> Some(q), data |-> WellFormed(q, inp), hashed |-> TRUE]
HashTypeOnly(q) == [htype |-> Some(q), data |-> WellFormed("", TRUE), hashed |-> TRUE]
Undecodable == [htype |-> Absent, data |-> Malformed, hashed |-> TRUE]
Unhashed == [htype |-> Absent, data |-> Malformed, hashed |-> FALSE]
NonObject == [htype |-> Absent, data |-> NotAMap, hashed |-> TRUE]

\* The first job is a zimage job (complete, lacking its prompt, or typed in
\* the hash only); the second a wav2lip job, another zimage job, an
\* undecodable one, one whose payload is not an object, or a stray id.
JobKinds(j) ==
    IF j = "j1"
    THEN {Typed("generate:zimage", TRUE), Typed("generate:zimage", FALSE),
          HashTypeOnly("generate:zimage")}
    ELSE {Typed("generate:wav2lip", TRUE), Typed("generate:zimage", TRUE),
          Undecodable, NonObject, Unhashed}

\* The worker processes started: two of one model, or one of each.
WorkerSetups ==
    {[w \in {"w1", "w2"} |-> "zimage"],
     [w \in {"w1", "w2"} |-> IF w = "w1" THEN "zimage" ELSE "wav2lip"]}

NoHash ==
    [exists |-> FALSE, type |-> Absent, data |-> Malformed, progress |-> Absent,
     returnvalue |-> Absent, failedReason |-> Absent,
     processedOn |-> Absent, finishedOn |-> Absent]

NewHash(kind) ==
    [exists |-> TRUE, type |-> kind.htype, data |-> kind.data, progress |-> Absent,
     returnvalue |-> Absent, failedReason |-> Absent,
     processedOn |-> Absent, finishedOn |-> Absent]

\* ------------------------------------------------------------------- state
VARIABLES
    wait,        \* bull:ffmpeg-jobs:wait       list, index 1 = head (left)
    active,      \* bull:ffmpeg-jobs:active     list, index 1 = head (left)
    completed,   \* bull:ffmpeg-jobs:completed  sorted set (members)
    failed,      \* bull:ffmpeg-jobs:failed     sorted set (members)
    hash,        \* bull:ffmpeg-jobs:<id>       hash per job id
    enqueued,    \* ids the producer has enqueued (each at most once)
    model,       \* worker -> the model it was started for
    pc,          \* worker -> position in main() / the queue client
    jid,         \* worker -> id popped by the latest get_next_job call
    idle,        \* worker -> idle_seconds
    stage,       \* worker -> index of the pre-Executor stage / callbacks made
    error,       \* worker -> error_msg of the except branch
    calls,       \* worker -> calls made for the job of the current cycle
    touched,     \* <<worker, id>> pairs: the worker wrote progress or settled id
    claimed,     \* id -> how many get_next_job calls have returned it
    misses,      \* worker -> consecutive get_next_job calls that returned None
    written,     \* worker -> progress values passed to update_progress, this job
    callbacks,   \* worker -> values the Executor passed to its callback, this job
    scratch,     \* worker -> its files under /tmp and its output-path variable
    storeErrs,   \* RedisErrors raised so far
    crashes,     \* workers killed so far
    job_dict,    \* Modal app: job id -> status stored in the persistent dict
    process_job, \* Modal app: job id -> position of its process_job call
    seen         \* Modal app: job id -> status the latest status() call returned

workerVars == <<wait, active, completed, failed, hash, enqueued, model, pc, jid, idle,
                stage, error, calls, touched, claimed, misses, written, callbacks,
                scratch, storeErrs, crashes>>

modalVars == <<job_dict, process_job, seen>>

vars == <<workerVars, modalVars>>

store == <<wait, active, completed, failed, hash>>

NoJob == "none"
\* The exception `e` caught by main()'s `except Exception as e`: where it was
\* raised and its message.
NoError == [from |-> "", msg |-> ""]
Exc(from, msg) == [from |-> from, msg |-> msg]
\* error_msg = str(e)
Str(e) == e.msg
NoCalls == [job |-> NoJob, mc |-> 0, mf |-> 0, nc |-> 0, nf |-> 0]
\* The worker's scratch files: what exists under /tmp, and whether main()'s
\* output-path variable (local_image / output_video / local_video) is set.
NoScratch == [disk |-> {}, output_path |-> FALSE]

\* Ids the Modal app's generate() draws (uuid4: each is used once).
ModalIds == {"m1", "m2"}
\* No request has reached the Modal app.
ModalIdle ==
    /\ job_dict = [i \in ModalIds |-> "absent"]
    /\ process_job = [i \in ModalIds |-> "unspawned"]
    /\ seen = [i \in ModalIds |-> "unasked"]

WorkerInit ==
    /\ wait = <<>>
    /\ active = <<>>
    /\ completed = {}
    /\ failed = {}
    /\ hash = [j \in JobIds |-> NoHash]
    /\ enqueued = {}
    /\ model \in WorkerSetups
    /\ pc = [w \in Workers |-> "poll"]
    /\ jid = [w \in Workers |-> NoJob]
    /\ idle = [w \in Workers |-> 0]
    /\ stage = [w \in Workers |-> 0]
    /\ error = [w \in Workers |-> NoError]
    /\ calls = [w \in Workers |-> NoCalls]
    /\ touched = {}
    /\ claimed = [j \in JobIds |-> 0]
    /\ misses = [w \in Workers |-> 0]
    /\ written = [w \in Workers |-> <<>>]
    /\ callbacks = [w \in Workers |-> <<>>]
    /\ scratch = [w \in Workers |-> NoScratch]
    /\ storeErrs = 0
    /\ crashes = 0

Init == WorkerInit /\ ModalIdle

\* ------------------------------------------------------- Redis primitives
\* Mutant: an LPOP, whatever the head is.
LRem1_Head(s, v) == IF s = <<>> THEN <<>> ELSE Tail(s)

\* LREM key 1 v: remove the first occurrence of v, from the head.
RECURSIVE LRem1(_, _)
LRem1(s, v) ==
    IF s = <<>> THEN <<>>
    ELSE IF Head(s) = v THEN Tail(s)
    ELSE <<Head(s)>> \o LRem1(Tail(s), v)

\* LPUSH key v: insert at the head (left).
LPush(s, v) == <<v>> \o s

\* The element RPOP / BRPOPLPUSH takes: the tail (right).
RPopped(s) == s[Len(s)]
RPopRest(s) == SubSeq(s, 1, Len(s) - 1)

Occurrences(s, v) == Cardinality({i \in 1..Len(s) : s[i] = v})
InList(s, v) == \E i \in 1..Len(s) : s[i] = v

\* Mutant: the command drops the key instead of writing the fields.
HSet_Delete(h, fields) == NoHash

\* HSET key field value ...: creates the hash when it does not exist.
HSet(h, fields) ==
    [f \in DOMAIN h |->
        IF f = "exists" THEN TRUE
        ELSE IF f \in DOMAIN fields THEN fields[f] ELSE h[f]]

\* A Redis command either succeeds or raises redis.RedisError.
StoreOk == "ok"
StoreError == "RedisError"
StoreOutcomes ==
    IF storeErrs < MaxStoreErrors THEN {StoreOk, StoreError} ELSE {StoreOk}

CountError(out) ==
    storeErrs' = IF out = StoreError THEN storeErrs + 1 ELSE storeErrs

\* ---------------------------------------------------------------- producer
\* Two complete zimage jobs are numbered in the order they arrive: j2 is such
\* a job only when j1 has been enqueued before it.
ArrivalOrder(j, kind) ==
    (j = "j2" /\ kind = Typed("generate:zimage", TRUE)) => "j1" \in enqueued

\* The external producer creates the job hash and pushes the id on wait.
Enqueue(j, kind) ==
    /\ j \notin enqueued
    /\ enqueued' = enqueued \cup {j}
    /\ ArrivalOrder(j, kind)
    /\ hash' = [hash EXCEPT ![j] = IF kind.hashed THEN NewHash(kind) ELSE NoHash]
    /\ wait' = LPush(wait, j)
    /\ UNCHANGED <<active, completed, failed, model, pc, jid, idle, misses, stage, error,
                   calls, touched, written, storeErrs, crashes>>
    /\ UNCHANGED <<claimed, callbacks, scratch>>
    /\ UNCHANGED modalVars

\* ------------------------------------------------------------ worker loop
QueueName(w) == QueueNameOf(model[w])

Running(w) == pc[w] \notin {"closed", "crashed", "dead"}

\* Mutant: the loop breaks only once the accumulator exceeds the maximum.
AfterMiss_Strict(idleNow) ==
    IF idleNow + PollTimeout > MAX_IDLE_SECONDS THEN "closed" ELSE "poll"

\* main(): `if job is None: idle_seconds += 5; if idle_seconds >= MAX: break`
\* and, after the loop, queue.close().
AfterMiss(idleNow) ==
    IF idleNow + PollTimeout >= MAX_IDLE_SECONDS THEN "closed" ELSE "poll"

\* get_next_job returned None to the loop.
Miss(w) ==
    /\ idle' = [idle EXCEPT ![w] = @ + PollTimeout]
    /\ misses' = [misses EXCEPT ![w] = @ + 1]
    /\ pc' = [pc EXCEPT ![w] = AfterMiss(idle[w])]

\* ----------------------------------------------- BullMQClient.get_next_job
\* Mutant: the id is read from wait without being taken off it.
BRPopLPushWait_Peek(w_list) == w_list
\* Mutant: a plain RPOP, the id is not recorded in active.
BRPopLPushActive_Drop(w_list, a_list) == a_list

\* BRPOPLPUSH wait active: one atomic command moves the tail of wait to the
\* head of active.
BRPopLPushWait(w_list) == RPopRest(w_list)
BRPopLPushActive(w_list, a_list) == LPush(a_list, RPopped(w_list))

\* The BRPOPLPUSH timed out on an empty wait list.
PollEmpty(w) ==
    /\ pc[w] = "poll"
    /\ wait = <<>>
    /\ Miss(w)
    /\ jid' = [jid EXCEPT ![w] = NoJob]
    /\ UNCHANGED <<store, enqueued, model, stage, error, calls, touched, written,
                   storeErrs, crashes>>
    /\ UNCHANGED <<claimed, callbacks, scratch>>
    /\ UNCHANGED modalVars

\* The BRPOPLPUSH raised RedisError: caught, get_next_job returns None.
PollError(w) ==
    /\ pc[w] = "poll"
    /\ StoreError \in StoreOutcomes
    /\ CountError(StoreError)
    /\ Miss(w)
    /\ jid' = [jid EXCEPT ![w] = NoJob]
    /\ UNCHANGED <<store, enqueued, model, stage, error, calls, touched, written,
                   crashes>>
    /\ UNCHANGED <<claimed, callbacks, scratch>>
    /\ UNCHANGED modalVars

PollPop(w) ==
    /\ pc[w] = "poll"
    /\ wait # <<>>
    /\ jid' = [jid EXCEPT ![w] = RPopped(wait)]
    /\ active' = BRPopLPushActive(wait, active)
    /\ wait' = BRPopLPushWait(wait)
    /\ pc' = [pc EXCEPT ![w] = "hgetall"]
    /\ UNCHANGED <<completed, failed, hash, enqueued, model, idle, misses, stage, error,
                   calls, touched, written, storeErrs, crashes>>
    /\ UNCHANGED <<claimed, callbacks, scratch>>
    /\ UNCHANGED modalVars

\* Mutant: every payload is taken to decode.
JsonLoadsOk_Always(h) == TRUE

\* json.loads(data_raw): does the payload decode?
JsonLoadsOk(h) == h.data.raises # "JSONDecodeError"

\* Is the decoded payload an object, so that data.get(...) works?
IsMap(h) == h.data.raises # "AttributeError"

\* Mutant: the type is read from the hash's own `type` field.
JobType_HashField(h) == IF h.type = Absent THEN "" ELSE h.type[1]

\* job_type = data.get("type", ""): the type is read from the decoded payload.
JobType(h) == h.data.type

\* Mutant: the type filter lets every decodable job through.
TypeMatches_Always(w, h) == TRUE

\* `if job_type != self.queue_name`
TypeMatches(w, h) == JobType(h) = QueueName(w)

\* What get_next_job does once HGETALL has answered.
AfterHGetAll(w, h) ==
    IF ~h.exists THEN "missing_lrem"
    ELSE IF ~JsonLoadsOk(h) THEN "JSONDecodeError"
    ELSE IF ~IsMap(h) THEN "AttributeError"
    ELSE IF ~TypeMatches(w, h) THEN "requeue_lrem"
    ELSE "return_job"

\* Mutant: the accumulator is left as it is when a job is returned.
IdleAfterHit_Keep(idleNow) == idleNow

\* main(): `idle_seconds = 0` when get_next_job returned a job.
IdleAfterHit(idleNow) == 0

\* HGETALL, decoding and the type filter.  On a match the job is returned
\* and the loop resets idle_seconds.  An exception that is neither a
\* RedisError nor a JSONDecodeError leaves get_next_job and, the call being
\* outside main()'s try block, main() itself.
HGetAll(w) ==
    /\ pc[w] = "hgetall"
    /\ \E out \in StoreOutcomes :
        /\ CountError(out)
        /\ LET next == IF out = StoreError THEN "RedisError"
                       ELSE AfterHGetAll(w, hash[jid[w]])
           IN  CASE next \in {"RedisError", "JSONDecodeError"} ->
                        /\ Miss(w)
                        /\ UNCHANGED <<jid, stage, calls, claimed>>
                 [] next = "return_job" ->
                        /\ idle' = [idle EXCEPT ![w] = IdleAfterHit(@)]
                        /\ misses' = [misses EXCEPT ![w] = 0]
                        /\ pc' = [pc EXCEPT ![w] = "progress0"]
                        /\ stage' = [stage EXCEPT ![w] = 0]
                        /\ calls' = [calls EXCEPT ![w] =
                                        [NoCalls EXCEPT !.job = jid[w]]]
                        /\ claimed' = [claimed EXCEPT ![jid[w]] = @ + 1]
                        /\ UNCHANGED jid
                 [] next = "AttributeError" ->
                        /\ pc' = [pc EXCEPT ![w] = "dead"]
                        /\ UNCHANGED <<jid, idle, misses, stage, calls, claimed>>
                 [] OTHER ->
                        /\ pc' = [pc EXCEPT ![w] = next]
                        /\ UNCHANGED <<jid, idle, misses, stage, calls, claimed>>
    /\ UNCHANGED <<store, enqueued, model, error, touched, written, crashes>>
    /\ UNCHANGED <<callbacks, scratch>>
    /\ UNCHANGED modalVars

\* Mutant: the stray id is left in active.
MissingRemove_Skip(a_list, id) == a_list

\* What the missing-hash branch takes out of active: LREM active 1 id.
MissingRemove(a_list, id) == LRem1(a_list, id)

\* Missing hash: LREM active 1 id, return None.
MissingLRem(w) ==
    /\ pc[w] = "missing_lrem"
    /\ \E out \in StoreOutcomes :
        /\ CountError(out)
        /\ active' = IF out = StoreOk THEN MissingRemove(active, jid[w]) ELSE active
    /\ Miss(w)
    /\ UNCHANGED <<wait, completed, failed, hash, enqueued, model, jid, stage, error,
                   calls, touched, written, crashes>>
    /\ UNCHANGED <<claimed, callbacks, scratch>>
    /\ UNCHANGED modalVars

\* Mutant: the requeue forgets to take the id out of active.
RequeueRemove_Skip(a_list, id) == a_list

\* What the type-mismatch branch takes out of active: LREM active 1 id.
RequeueRemove(a_list, id) == LRem1(a_list, id)

\* Type mismatch, first command: LREM active 1 id.
RequeueLRem(w) ==
    /\ pc[w] = "requeue_lrem"
    /\ \E out \in StoreOutcomes :
        /\ CountError(out)
        /\ IF out = StoreOk
           THEN /\ active' = RequeueRemove(active, jid[w])
                /\ pc' = [pc EXCEPT ![w] = "requeue_lpush"]
                /\ UNCHANGED <<idle, misses>>
           ELSE /\ Miss(w)
                /\ UNCHANGED active
    /\ UNCHANGED <<wait, completed, failed, hash, enqueued, model, jid, stage, error,
                   calls, touched, written, crashes>>
    /\ UNCHANGED <<claimed, callbacks, scratch>>
    /\ UNCHANGED modalVars

\* Mutant: the id is re-inserted at the end claim pops from (RPUSH).
RequeuePush_Tail(w_list, id) == Append(w_list, id)

\* Where the type-mismatch branch re-inserts the id: LPUSH wait id.
RequeuePush(w_list, id) == LPush(w_list, id)

\* Type mismatch, second command: LPUSH wait id, return None.
RequeueLPush(w) ==
    /\ pc[w] = "requeue_lpush"
    /\ \E out \in StoreOutcomes :
        /\ CountError(out)
        /\ wait' = IF out = StoreOk THEN RequeuePush(wait, jid[w]) ELSE wait
    /\ Miss(w)
    /\ UNCHANGED <<active, completed, failed, hash, enqueued, model, jid, stage, error,
                   calls, touched, written, crashes>>
    /\ UNCHANGED <<claimed, callbacks, scratch>>
    /\ UNCHANGED modalVars

\* ------------------------------------------------ BullMQClient.update_progress
\* HSET <id> progress <v>; a RedisError is logged and swallowed.
update_progress(w, v, out) ==
    /\ CountError(out)
    /\ hash' = IF out = StoreOk
               THEN [hash EXCEPT ![jid[w]] = HSet(@, [progress |-> Some(v)])]
               ELSE hash
    /\ touched' = touched \cup {<<w, jid[w]>>}
    /\ written' = [written EXCEPT ![w] = Append(@, v)]

\* ------------------------------------------------------- main(): try block
\* Mutant: the exception is swallowed and the try block carries on to
\* mark_completed.
Raise_Swallow(w, from, msg) ==
    /\ error' = [error EXCEPT ![w] = Exc(from, msg)]
    /\ pc' = [pc EXCEPT ![w] = "mc_hset"]

\* The except branch: error_msg = str(e), then mark_failed.
Raise(w, from, msg) ==
    /\ error' = [error EXCEPT ![w] = Exc(from, msg)]
    /\ pc' = [pc EXCEPT ![w] = "mf_hset"]

\* queue.update_progress(job_id, 0)
Progress0(w) ==
    /\ pc[w] = "progress0"
    /\ \E out \in StoreOutcomes : update_progress(w, 0, out)
    /\ pc' = [pc EXCEPT ![w] = "prepare"]
    /\ stage' = [stage EXCEPT ![w] = 1]
    /\ UNCHANGED <<wait, active, completed, failed, enqueued, model, jid, idle, misses,
                   error, calls, crashes>>
    /\ UNCHANGED <<claimed, callbacks, scratch>>
    /\ UNCHANGED modalVars

\* The message of the ValueError raised for a missing required input.
MissingInput(m) ==
    CASE m = "zimage" -> "Missing prompt in job data"
      [] m = "wav2lip" -> "Missing videoUrl in job data"
      [] m = "ltx2" -> "Missing imageUrl in job data"

\* Does the stage download an input (storage.download_from_url)?
Downloads(m) == m # "zimage"

\* The local paths main() fixes before the try block for the inputs it
\* downloads (f"/tmp/{job_id}_input.mp4", ...), by stage.
InputPaths(m) ==
    CASE m = "zimage" -> <<>>
      [] m = "wav2lip" -> <<"input.mp4", "input.wav">>
      [] m = "ltx2" -> <<"input.jpg">>

\* A file under /tmp that belongs to a job.
File(j, name) == <<j, name>>
\* The Executor's artifact, /tmp/output_<uuid>: a fresh name per call.
OutputFile(j) == File(j, "output")

\* storage.download_from_url(url, local_path) wrote (all or part of) the file.
Downloaded(w) ==
    IF Downloads(model[w])
    THEN [scratch EXCEPT ![w].disk =
            @ \cup {File(jid[w], InputPaths(model[w])[stage[w]])}]
    ELSE scratch

\* One pre-Executor stage: input validation and download, then
\* queue.update_progress(job_id, <stage marker>).
Prepare(w) ==
    /\ pc[w] = "prepare"
    /\ \/ /\ ~hash[jid[w]].data.inputs
          /\ Raise(w, "validation", MissingInput(model[w]))
          /\ UNCHANGED <<hash, touched, written, storeErrs, stage, scratch>>
       \/ /\ hash[jid[w]].data.inputs
          /\ Downloads(model[w])
          /\ Raise(w, "download", IOErrMsg)
          \* raise_for_status() raised, or the transfer broke off mid-file
          /\ \/ UNCHANGED scratch
             \/ scratch' = Downloaded(w)
          /\ UNCHANGED <<hash, touched, written, storeErrs, stage>>
       \/ /\ hash[jid[w]].data.inputs
          /\ scratch' = Downloaded(w)
          /\ \E out \in StoreOutcomes :
                update_progress(w, PreMarkers(model[w])[stage[w]], out)
          /\ IF stage[w] < Len(PreMarkers(model[w]))
             THEN /\ stage' = [stage EXCEPT ![w] = @ + 1]
                  /\ UNCHANGED pc
             ELSE /\ pc' = [pc EXCEPT ![w] = "generate"]
                  /\ stage' = [stage EXCEPT ![w] = 0]
          /\ UNCHANGED error
    /\ UNCHANGED <<wait, active, completed, failed, enqueued, model, jid, idle, misses,
                   calls, crashes>>
    /\ UNCHANGED <<claimed, callbacks>>
    /\ UNCHANGED modalVars

\* The Executor calls progress_callback(p) during generate(): main()'s
\* on_progress(p) runs queue.update_progress(job_id, <p rescaled>).
ProgressCallback(w, p) ==
    /\ pc[w] = "generate"
    /\ stage[w] < MaxCallbacks
    /\ \E out \in StoreOutcomes :
        /\ update_progress(w, on_progress(model[w], p), out)
        /\ callbacks' = [callbacks EXCEPT ![w] = Append(@, p)]
    /\ stage' = [stage EXCEPT ![w] = @ + 1]
    /\ UNCHANGED <<wait, active, completed, failed, enqueued, model, pc, jid, idle, misses,
                   error, calls, crashes>>
    /\ UNCHANGED <<claimed, scratch>>
    /\ UNCHANGED modalVars

\* The callback with one of the values the Executor passes.
GenerateCallback(w) == \E p \in ExecProgress : ProgressCallback(w, p)

\* generator.generate(...) wrote its artifact and returned the path, which
\* main() assigns to its output-path variable; then
\* queue.update_progress(job_id, 90).
GenerateReturns(w) ==
    /\ pc[w] = "generate"
    /\ scratch' = [scratch EXCEPT ![w] =
                    [disk |-> @.disk \cup {OutputFile(jid[w])},
                     output_path |-> TRUE]]
    /\ \E out \in StoreOutcomes : update_progress(w, UploadMarker, out)
    /\ pc' = [pc EXCEPT ![w] = "upload"]
    /\ UNCHANGED <<wait, active, completed, failed, enqueued, model, jid, idle, misses,
                   stage, error, calls, crashes>>
    /\ UNCHANGED <<claimed, callbacks>>
    /\ UNCHANGED modalVars

\* generator.generate(...) raises, before it has written anything to its
\* output path or after (image.save / the export breaking off, the
\* subprocess exiting non-zero): main()'s output-path variable stays None.
GenerateRaises(w) ==
    /\ pc[w] = "generate"
    /\ \E msg \in ErrMsgs : Raise(w, "executor", msg)
    /\ \/ UNCHANGED scratch
       \/ scratch' = [scratch EXCEPT ![w].disk = @ \cup {OutputFile(jid[w])}]
    /\ UNCHANGED <<store, enqueued, model, jid, idle, misses, stage, calls, touched, written,
                   storeErrs, crashes>>
    /\ UNCHANGED <<claimed, callbacks>>
    /\ UNCHANGED modalVars

\* generator.generate(...) does not return: the pipeline call, the read loop
\* over the subprocess's output and process.wait() carry no deadline.
GenerateHangs(w) ==
    /\ pc[w] = "generate"
    /\ pc' = [pc EXCEPT ![w] = "hung"]
    /\ UNCHANGED <<store, enqueued, model, jid, idle, misses, stage, error,
                   calls, touched, written, storeErrs, crashes>>
    /\ UNCHANGED <<claimed, callbacks, scratch>>
    /\ UNCHANGED modalVars

\* storage.upload_output, storage.get_file_size or the artifact's metadata
\* raises.
UploadRaises(w) ==
    /\ pc[w] = "upload"
    /\ Raise(w, "result sink", IOErrMsg)
    /\ UNCHANGED <<store, enqueued, model, jid, idle, misses, stage, calls, touched, written,
                   storeErrs, crashes>>
    /\ UNCHANGED <<claimed, callbacks, scratch>>
    /\ UNCHANGED modalVars

\* The Result Sink calls return, then queue.update_progress(job_id, 100).
UploadReturns(w) ==
    /\ pc[w] = "upload"
    /\ \E out \in StoreOutcomes : update_progress(w, FinalProgress, out)
    /\ pc' = [pc EXCEPT ![w] = "mc_hset"]
    /\ UNCHANGED <<wait, active, completed, failed, enqueued, model, jid, idle, misses,
                   stage, error, calls, crashes>>
    /\ UNCHANGED <<claimed, callbacks, scratch>>
    /\ UNCHANGED modalVars

\* ---------------------------------------------------- the result record
\* storage.upload_output: key outputs/<job_id>/output.<ext>, ext by content type.
ContentType(m) == IF m = "zimage" THEN "image/png" ELSE "video/mp4"
Ext(ct) ==
    CASE ct = "video/mp4" -> "mp4"
      [] ct = "image/png" -> "png"
      [] ct = "image/jpeg" -> "jpg"
      [] OTHER -> "bin"
UploadUrl(j, ct) == <<"outputs", j, "output", Ext(ct)>>

\* main(): result = {"url": ..., "contentType": ..., ...}
Result(w) ==
    [url |-> UploadUrl(jid[w], ContentType(model[w])),
     contentType |-> ContentType(model[w])]

\* json.dumps(result)
JsonDumps(r) == [json |-> r]

\* time.time() as read by a settlement call: a logical clock per job cycle,
\* the ordinal of the settlement call within the cycle.
Now(w) == calls[w].mc + calls[w].mf + 1

\* ------------------------------------------------ BullMQClient.mark_completed
\* The fields mark_completed writes with one HSET.
CompletedFields(result, now) ==
    [returnvalue |-> Some(JsonDumps(result)),
     finishedOn |-> Some(now),
     processedOn |-> Some(now)]

\* Mutant: mark_completed lets the failure reach main()'s except branch.
AfterMarkCompleted_Raise == "mf_hset"

\* Where main() continues after mark_completed returned.
AfterMarkCompleted == "notify_complete"

\* now = time.time(); HSET <id> returnvalue finishedOn processedOn
MarkCompletedHSet(w) ==
    /\ pc[w] = "mc_hset"
    /\ calls' = [calls EXCEPT ![w].mc = @ + 1]
    /\ touched' = touched \cup {<<w, jid[w]>>}
    /\ \E out \in StoreOutcomes :
        /\ CountError(out)
        /\ IF out = StoreOk
           THEN /\ hash' = [hash EXCEPT ![jid[w]] =
                                HSet(@, CompletedFields(Result(w), Now(w)))]
                /\ pc' = [pc EXCEPT ![w] = "mc_lrem"]
           ELSE /\ pc' = [pc EXCEPT ![w] = AfterMarkCompleted]
                /\ UNCHANGED hash
    /\ UNCHANGED <<wait, active, completed, failed, enqueued, model, jid, idle, misses,
                   stage, error, crashes>>
    /\ UNCHANGED <<claimed, callbacks, scratch, written>>
    /\ UNCHANGED modalVars

\* LREM active 1 <id>
MarkCompletedLRem(w) ==
    /\ pc[w] = "mc_lrem"
    /\ \E out \in StoreOutcomes :
        /\ CountError(out)
        /\ IF out = StoreOk
           THEN /\ active' = LRem1(active, jid[w])
                /\ pc' = [pc EXCEPT ![w] = "mc_zadd"]
           ELSE /\ pc' = [pc EXCEPT ![w] = AfterMarkCompleted]
                /\ UNCHANGED active
    /\ UNCHANGED <<wait, completed, failed, hash, enqueued, model, jid, idle, misses,
                   stage, error, calls, touched, written, crashes>>
    /\ UNCHANGED <<claimed, callbacks, scratch>>
    /\ UNCHANGED modalVars

\* ZADD completed <time> <id>
MarkCompletedZAdd(w) ==
    /\ pc[w] = "mc_zadd"
    /\ \E out \in StoreOutcomes :
        /\ CountError(out)
        /\ completed' = IF out = StoreOk THEN completed \cup {jid[w]} ELSE completed
    /\ pc' = [pc EXCEPT ![w] = AfterMarkCompleted]
    /\ UNCHANGED <<wait, active, failed, hash, enqueued, model, jid, idle, misses, stage,
                   error, calls, touched, written, crashes>>
    /\ UNCHANGED <<claimed, callbacks, scratch>>
    /\ UNCHANGED modalVars

\* ------------------------------------------------------------- webhook.py
\* What a notify_* call can end in: every webhook delivered, a delivery
\* failed with requests.RequestException, or another exception was raised.
NotifyOutcomes == {"delivered", "RequestException", "Exception"}

\* _call_webhook: `except requests.RequestException` logs and returns False;
\* anything else propagates to the caller.
NotifyPropagates(out) == out = "Exception"

\* Mutant: the worker stops after every job.
AfterFinally_Close(at) == "closed"

\* Where main() goes after the `finally` clause: the next loop iteration,
\* or out of main() when an exception is still propagating.
AfterFinally(at) == IF at = "finally_raise" THEN "dead" ELSE "poll"

\* notify_complete(job_id, model, result, webhookUrl), still inside `try`.
NotifyComplete(w) ==
    /\ pc[w] = "notify_complete"
    /\ calls' = [calls EXCEPT ![w].nc = @ + 1]
    /\ \E out \in NotifyOutcomes :
        IF NotifyPropagates(out)
        THEN /\ Raise(w, "notifier", IOErrMsg)
             /\ UNCHANGED jid
        ELSE /\ pc' = [pc EXCEPT ![w] = "finally"]
             /\ UNCHANGED <<jid, error>>
    /\ UNCHANGED <<store, enqueued, model, idle, misses, stage, touched, written, storeErrs,
                   crashes>>
    /\ UNCHANGED <<claimed, callbacks, scratch>>
    /\ UNCHANGED modalVars

\* --------------------------------------------------- BullMQClient.mark_failed
\* The fields mark_failed writes with one HSET.
FailedFields(msg, now) ==
    [failedReason |-> Some(msg), finishedOn |-> Some(now)]

\* now = time.time(); HSET <id> failedReason finishedOn
MarkFailedHSet(w) ==
    /\ pc[w] = "mf_hset"
    /\ calls' = [calls EXCEPT ![w].mf = @ + 1]
    /\ touched' = touched \cup {<<w, jid[w]>>}
    /\ \E out \in StoreOutcomes :
        /\ CountError(out)
        /\ IF out = StoreOk
           THEN /\ hash' = [hash EXCEPT ![jid[w]] =
                                HSet(@, FailedFields(Str(error[w]), Now(w)))]
                /\ pc' = [pc EXCEPT ![w] = "mf_lrem"]
           ELSE /\ pc' = [pc EXCEPT ![w] = "notify_failed"]
                /\ UNCHANGED hash
    /\ UNCHANGED <<wait, active, completed, failed, enqueued, model, jid, idle, misses,
                   stage, error, crashes>>
    /\ UNCHANGED <<claimed, callbacks, scratch, written>>
    /\ UNCHANGED modalVars

\* LREM active 1 <id>
MarkFailedLRem(w) ==
    /\ pc[w] = "mf_lrem"
    /\ \E out \in StoreOutcomes :
        /\ CountError(out)
        /\ IF out = StoreOk
           THEN /\ active' = LRem1(active, jid[w])
                /\ pc' = [pc EXCEPT ![w] = "mf_zadd"]
           ELSE /\ pc' = [pc EXCEPT ![w] = "notify_failed"]
                /\ UNCHANGED active
    /\ UNCHANGED <<wait, completed, failed, hash, enqueued, model, jid, idle, misses,
                   stage, error, calls, touched, written, crashes>>
    /\ UNCHANGED <<claimed, callbacks, scratch>>
    /\ UNCHANGED modalVars

\* ZADD failed <time> <id>
MarkFailedZAdd(w) ==
    /\ pc[w] = "mf_zadd"
    /\ \E out \in StoreOutcomes :
        /\ CountError(out)
        /\ failed' = IF out = StoreOk THEN failed \cup {jid[w]} ELSE failed
    /\ pc' = [pc EXCEPT ![w] = "notify_failed"]
    /\ UNCHANGED <<wait, active, completed, hash, enqueued, model, jid, idle, misses,
                   stage, error, calls, touched, written, crashes>>
    /\ UNCHANGED <<claimed, callbacks, scratch>>
    /\ UNCHANGED modalVars

\* notify_failed(job_id, model, error_msg, webhookUrl), inside `except`: an
\* exception it lets through leaves main() after the `finally` clause.
NotifyFailed(w) ==
    /\ pc[w] = "notify_failed"
    /\ calls' = [calls EXCEPT ![w].nf = @ + 1]
    /\ \E out \in NotifyOutcomes :
        IF NotifyPropagates(out)
        THEN pc' = [pc EXCEPT ![w] = "finally_raise"]
        ELSE pc' = [pc EXCEPT ![w] = "finally"]
    /\ UNCHANGED <<store, enqueued, model, jid, idle, misses, stage, error, touched, written,
                   storeErrs, crashes>>
    /\ UNCHANGED <<claimed, callbacks, scratch>>
    /\ UNCHANGED modalVars

\* The paths the `finally` clause goes through: the input paths, and the
\* output path when the variable is set (`if f and os.path.exists(f)`).
CleanupPaths(w) ==
    {File(jid[w], InputPaths(model[w])[k]) : k \in 1..Len(InputPaths(model[w]))}
    \cup (IF scratch[w].output_path THEN {OutputFile(jid[w])} ELSE {})

\* os.remove of each of them; the next iteration starts with the output-path
\* variable None again.
Cleanup(w) ==
    [disk |-> scratch[w].disk \ CleanupPaths(w), output_path |-> FALSE]

\* The `finally` clause (removal of the job's scratch files), after which
\* the loop continues or the propagating exception ends main().
Finally(w) ==
    /\ pc[w] \in {"finally", "finally_raise"}
    /\ pc' = [pc EXCEPT ![w] = AfterFinally(pc[w])]
    /\ jid' = [jid EXCEPT ![w] = NoJob]
    /\ error' = [error EXCEPT ![w] = NoError]
    /\ stage' = [stage EXCEPT ![w] = 0]
    /\ calls' = [calls EXCEPT ![w] = NoCalls]
    /\ written' = [written EXCEPT ![w] = <<>>]
    /\ callbacks' = [callbacks EXCEPT ![w] = <<>>]
    /\ scratch' = [scratch EXCEPT ![w] = Cleanup(w)]
    /\ UNCHANGED <<store, enqueued, model, idle, misses, touched, storeErrs, crashes>>
    /\ UNCHANGED claimed
    /\ UNCHANGED modalVars

\* ------------------------------------------------------------ environment
\* The worker process is killed (OOM, pod eviction) wherever it stands.
Crash(w) ==
    /\ Running(w)
    /\ crashes < MaxCrashes
    /\ crashes' = crashes + 1
    /\ pc' = [pc EXCEPT ![w] = "crashed"]
    /\ idle' = [idle EXCEPT ![w] = 0]
    /\ stage' = [stage EXCEPT ![w] = 0]
    /\ error' = [error EXCEPT ![w] = NoError]
    /\ misses' = [misses EXCEPT ![w] = 0]
    /\ written' = [written EXCEPT ![w] = <<>>]
    /\ callbacks' = [callbacks EXCEPT ![w] = <<>>]
    /\ UNCHANGED <<store, enqueued, model, jid, calls, touched, storeErrs>>
    /\ UNCHANGED <<claimed, scratch>>
    /\ UNCHANGED modalVars

\* The steps of worker w's own code.
WorkerNext(w) ==
    \/ PollEmpty(w) \/ PollError(w) \/ PollPop(w) \/ HGetAll(w)
    \/ MissingLRem(w) \/ RequeueLRem(w) \/ RequeueLPush(w)
    \/ Progress0(w) \/ Prepare(w)
    \/ GenerateCallback(w) \/ GenerateReturns(w) \/ GenerateRaises(w)
    \/ UploadRaises(w) \/ UploadReturns(w)
    \/ MarkCompletedHSet(w) \/ MarkCompletedLRem(w) \/ MarkCompletedZAdd(w)
    \/ NotifyComplete(w)
    \/ MarkFailedHSet(w) \/ MarkFailedLRem(w) \/ MarkFailedZAdd(w)
    \/ NotifyFailed(w) \/ Finally(w)

Next ==
    \/ \E j \in JobIds : \E kind \in JobKinds(j) : Enqueue(j, kind)
    \/ \E w \in Workers : PollEmpty(w)
    \/ \E w \in Workers : PollError(w)
    \/ \E w \in Workers : PollPop(w)
    \/ \E w \in Workers : HGetAll(w)
    \/ \E w \in Workers : MissingLRem(w)
    \/ \E w \in Workers : RequeueLRem(w)
    \/ \E w \in Workers : RequeueLPush(w)
    \/ \E w \in Workers : Progress0(w)
    \/ \E w \in Workers : Prepare(w)
    \/ \E w \in Workers : GenerateCallback(w)
    \/ \E w \in Workers : GenerateReturns(w)
    \/ \E w \in Workers : GenerateRaises(w)
    \/ \E w \in Workers : GenerateHangs(w)
    \/ \E w \in Workers : UploadRaises(w)
    \/ \E w \in Workers : UploadReturns(w)
    \/ \E w \in Workers : MarkCompletedHSet(w)
    \/ \E w \in Workers : MarkCompletedLRem(w)
    \/ \E w \in Workers : MarkCompletedZAdd(w)
    \/ \E w \in Workers : NotifyComplete(w)
    \/ \E w \in Workers : MarkFailedHSet(w)
    \/ \E w \in Workers : MarkFailedLRem(w)
    \/ \E w \in Workers : MarkFailedZAdd(w)
    \/ \E w \in Workers : NotifyFailed(w)
    \/ \E w \in Workers : Finally(w)
    \/ \E w \in Workers : Crash(w)

Spec == Init /\ [][Next]_vars

\* ----------------------------------------------------------------------
\* The progress callback on its own: a worker of model m has claimed j1, has
\* written 0 and its stage markers, and is inside generator.generate(); the
\* Executor then reports any value of its 0..100 range.
ExecutorRange == 0..100

AtGenerate(m) ==
    /\ wait = <<>>
    /\ active = <<"j1">>
    /\ completed = {}
    /\ failed = {}
    /\ hash = [j \in JobIds |->
                IF j = "j1"
                THEN HSet(NewHash(Typed(QueueNameOf(m), TRUE)),
                          [progress |-> Some(PreMarkers(m)[Len(PreMarkers(m))])])
                ELSE NoHash]
    /\ enqueued = {"j1"}
    /\ model = [w \in Workers |-> m]
    /\ pc = [w \in Workers |-> IF w = "w1" THEN "generate" ELSE "poll"]
    /\ jid = [w \in Workers |-> IF w = "w1" THEN "j1" ELSE NoJob]
    /\ idle = [w \in Workers |-> 0]
    /\ stage = [w \in Workers |-> 0]
    /\ error = [w \in Workers |-> NoError]
    /\ calls = [w \in Workers |->
                 IF w = "w1" THEN [NoCalls EXCEPT !.job = "j1"] ELSE NoCalls]
    /\ touched = {<<"w1", "j1">>}
    /\ claimed = [j \in JobIds |-> IF j = "j1" THEN 1 ELSE 0]
    /\ misses = [w \in Workers |-> 0]
    /\ written = [w \in Workers |->
                   IF w = "w1" THEN <<0>> \o PreMarkers(m) ELSE <<>>]
    /\ callbacks = [w \in Workers |-> <<>>]
    /\ scratch = [w \in Workers |->
                   IF w = "w1"
                   THEN [disk |-> {File("j1", InputPaths(m)[i]) :
                                     i \in 1..Len(InputPaths(m))},
                         output_path |-> FALSE]
                   ELSE NoScratch]
    /\ storeErrs = 0
    /\ crashes = 0
    /\ ModalIdle

RescaleInit == \E m \in Models : AtGenerate(m)

RescaleNext ==
    \E w \in Workers : \E p \in ExecutorRange :
        ProgressCallback(w, p) /\ storeErrs' = storeErrs

RescaleSpec == RescaleInit /\ [][RescaleNext]_vars

\* ----------------------------------------------------------------------
\* Draining a loaded queue: one worker per model has just started, both jobs
\* are already in wait, each a decodable job of one of the workers' types,
\* and from then on no Redis command raises, no worker is killed and every
\* Executor call returns or raises.
DrainSetups == {f \in [Workers -> Models] : \A w, v \in Workers : w # v => f[w] # f[v]}

Loaded(setup, kinds, order) ==
    /\ wait = order
    /\ active = <<>>
    /\ completed = {}
    /\ failed = {}
    /\ hash = [j \in JobIds |-> NewHash(kinds[j])]
    /\ enqueued = JobIds
    /\ model = setup
    /\ pc = [w \in Workers |-> "poll"]
    /\ jid = [w \in Workers |-> NoJob]
    /\ idle = [w \in Workers |-> 0]
    /\ stage = [w \in Workers |-> 0]
    /\ error = [w \in Workers |-> NoError]
    /\ calls = [w \in Workers |-> NoCalls]
    /\ touched = {}
    /\ claimed = [j \in JobIds |-> 0]
    /\ misses = [w \in Workers |-> 0]
    /\ written = [w \in Workers |-> <<>>]
    /\ callbacks = [w \in Workers |-> <<>>]
    /\ scratch = [w \in Workers |-> NoScratch]
    /\ storeErrs = 0
    /\ crashes = 0
    /\ ModalIdle

DrainInit ==
    \E setup \in DrainSetups :
    \E kinds \in [JobIds -> {Typed(QueueNameOf(m), inp) : m \in Models, inp \in BOOLEAN}] :
    \E order \in {<<"j1", "j2">>, <<"j2", "j1">>} :
        Loaded(setup, kinds, order)

NoFault == storeErrs' = storeErrs /\ crashes' = crashes

DrainNext ==
    \/ \E w \in Workers : PollEmpty(w)
    \/ \E w \in Workers : PollPop(w) /\ NoFault
    \/ \E w \in Workers : HGetAll(w) /\ NoFault
    \/ \E w \in Workers : RequeueLRem(w) /\ NoFault
    \/ \E w \in Workers : RequeueLPush(w) /\ NoFault
    \/ \E w \in Workers : Progress0(w) /\ NoFault
    \/ \E w \in Workers : Prepare(w) /\ NoFault
    \/ \E w \in Workers : GenerateCallback(w) /\ NoFault
    \/ \E w \in Workers : GenerateReturns(w) /\ NoFault
    \/ \E w \in Workers : GenerateRaises(w) /\ NoFault
    \/ \E w \in Workers : UploadRaises(w) /\ NoFault
    \/ \E w \in Workers : UploadReturns(w) /\ NoFault
    \/ \E w \in Workers : MarkCompletedHSet(w) /\ NoFault
    \/ \E w \in Workers : MarkCompletedLRem(w) /\ NoFault
    \/ \E w \in Workers : MarkCompletedZAdd(w) /\ NoFault
    \/ \E w \in Workers : NotifyComplete(w)
    \/ \E w \in Workers : MarkFailedHSet(w) /\ NoFault
    \/ \E w \in Workers : MarkFailedLRem(w) /\ NoFault
    \/ \E w \in Workers : MarkFailedZAdd(w) /\ NoFault
    \/ \E w \in Workers : NotifyFailed(w)
    \/ \E w \in Workers : Finally(w)

DrainSpec == DrainInit /\ [][DrainNext]_vars

\* ----------------------------------------------------------------------
\* src/modal/infinitetalk_app.py: the Modal app, with job state in job_dict.
TerminalStatus == {"completed", "failed"}
\* Positions of a process_job call that is still running.
InProcessJob == {"spawned", "working", "encoded", "cleanup", "except"}

\* generate(): a request that fails validation is answered 400 and leaves
\* no trace; otherwise job_id = uuid4(), job_dict[job_id] = queued,
\* process_job.spawn(job_id, ...), and the id is returned.
generate(i, valid) ==
    /\ process_job[i] = "unspawned"
    /\ IF valid
       THEN /\ job_dict' = [job_dict EXCEPT ![i] = "queued"]
            /\ process_job' = [process_job EXCEPT ![i] = "spawned"]
       ELSE UNCHANGED <<job_dict, process_job>>
    /\ UNCHANGED <<seen, workerVars>>

\* process_job: job_dict[job_id] = {"status": "processing"}
ProcessStart(i) ==
    /\ process_job[i] = "spawned"
    /\ job_dict' = [job_dict EXCEPT ![i] = "processing"]
    /\ process_job' = [process_job EXCEPT ![i] = "working"]
    /\ UNCHANGED <<seen, workerVars>>

\* The downloads, _run_inference and the base64 encoding return.
ProcessWorkReturns(i) ==
    /\ process_job[i] = "working"
    /\ process_job' = [process_job EXCEPT ![i] = "encoded"]
    /\ UNCHANGED <<job_dict, seen, workerVars>>

\* One of them raises (raise_for_status, FFmpeg failed, ...).
ProcessWorkRaises(i) ==
    /\ process_job[i] = "working"
    /\ process_job' = [process_job EXCEPT ![i] = "except"]
    /\ UNCHANGED <<job_dict, seen, workerVars>>

\* job_dict[job_id] = {"status": "completed", "video": ...}
ProcessWriteCompleted(i) ==
    /\ process_job[i] = "encoded"
    /\ job_dict' = [job_dict EXCEPT ![i] = "completed"]
    /\ process_job' = [process_job EXCEPT ![i] = "cleanup"]
    /\ UNCHANGED <<seen, workerVars>>

\* The os.unlink calls after the completed write, still inside the try:
\* they return, or one raises OSError.
ProcessCleanup(i) ==
    /\ process_job[i] = "cleanup"
    /\ \E raised \in BOOLEAN :
        process_job' = [process_job EXCEPT ![i] = IF raised THEN "except" ELSE "returned"]
    /\ UNCHANGED <<job_dict, seen, workerVars>>

\* except Exception as e: job_dict[job_id] = {"status": "failed", ...}
ProcessExcept(i) ==
    /\ process_job[i] = "except"
    /\ job_dict' = [job_dict EXCEPT ![i] = "failed"]
    /\ process_job' = [process_job EXCEPT ![i] = "returned"]
    /\ UNCHANGED <<seen, workerVars>>

\* The call runs into the class's timeout=900 and Modal ends it where it
\* stands.
ProcessTimeout(i) ==
    /\ process_job[i] \in InProcessJob \ {"spawned"}
    /\ process_job' = [process_job EXCEPT ![i] = "timed out"]
    /\ UNCHANGED <<job_dict, seen, workerVars>>

\* status(job_id) for an id that generate() returned: 404 when
\* job_dict.get(job_id) is empty, the stored status otherwise.
status(i) ==
    /\ process_job[i] # "unspawned"
    /\ seen' = [seen EXCEPT ![i] =
                 IF job_dict[i] = "absent" THEN "not found" ELSE job_dict[i]]
    /\ UNCHANGED <<job_dict, process_job, workerVars>>

ModalInit == WorkerInit /\ model = [w \in Workers |-> "zimage"] /\ ModalIdle

ModalNext ==
    \/ \E i \in ModalIds : \E valid \in BOOLEAN : generate(i, valid)
    \/ \E i \in ModalIds : ProcessStart(i)
    \/ \E i \in ModalIds : ProcessWorkReturns(i)
    \/ \E i \in ModalIds : ProcessWorkRaises(i)
    \/ \E i \in ModalIds : ProcessWriteCompleted(i)
    \/ \E i \in ModalIds : ProcessCleanup(i)
    \/ \E i \in ModalIds : ProcessExcept(i)
    \/ \E i \in ModalIds : ProcessTimeout(i)
    \/ \E i \in ModalIds : status(i)

ModalSpec == ModalInit /\ [][ModalNext]_vars

\* ======================================================================
\* Properties
\* ======================================================================
InWait(j) == InList(wait, j)
InActive(j) == InList(active, j)
SettleCalls(w) == calls[w].mc + calls[w].mf
\* The worker has left the try/except of a job cycle.
CycleEnd(w) == pc[w] \in {"finally", "finally_raise"}
\* The id is foreign to the worker: a decodable payload of another type.
Foreign(w, j) ==
    /\ hash[j].exists
    /\ hash[j].data.wellformed
    /\ hash[j].data.type # QueueName(w)

\* C1: in every loop iteration in which get_next_job returned a job, exactly
\* one settlement call (mark_completed or mark_failed) is made for it, never
\* both and never neither, whichever step of the cycle raises.
C1_ExactlyOneSettlementCall ==
    \A w \in Workers :
        /\ SettleCalls(w) <= 1
        /\ CycleEnd(w) => SettleCalls(w) = 1

\* C2: every job id is in at most one of the lists wait and active, and in
\* at most one of the sorted sets completed and failed.
C2_ExclusiveMembership ==
    \A j \in JobIds :
        /\ ~(InWait(j) /\ InActive(j))
        /\ ~(j \in completed /\ j \in failed)

\* The list half of C2 alone.
C2_ListsExclusive == \A j \in JobIds : ~(InWait(j) /\ InActive(j))

\* C3: a job claimed by a worker that does not crash ends in exactly one of
\* completed and failed, and is then no longer in active.  Stated for the end
\* of the job cycle, and only for runs in which no Redis command has failed.
C3_SettledInExactlyOneSet ==
    \A w \in Workers :
        (pc[w] = "finally" /\ storeErrs = 0) =>
            /\ (calls[w].job \in completed) # (calls[w].job \in failed)
            /\ ~InActive(calls[w].job)

\* C4: a worker never writes progress for, nor settles, a job whose type is
\* not its queue name; it never holds such a job either.
C4_TypeIsolation ==
    /\ \A t \in touched :
        /\ hash[t[2]].data.wellformed
        /\ hash[t[2]].data.type = QueueName(t[1])
        /\ hash[t[2]].type = Some(QueueName(t[1]))
    /\ \A w \in Workers :
        calls[w].job # NoJob => hash[calls[w].job].data.type = QueueName(w)

\* A worker popped a foreign job and put it back; the worker of the job's own
\* type then completed it, and the first worker never touched it.
C4_Witness ==
    \E w \in Workers, v \in Workers, j \in JobIds :
        /\ pc[w] = "poll" /\ jid[w] = j /\ Foreign(w, j)
        /\ storeErrs = 0
        /\ <<v, j>> \in touched /\ j \in completed
        /\ <<w, j>> \notin touched

\* C5: no job id is held by two workers at once, and an id enqueued once is
\* returned by at most one successful claim.
C5_ExclusiveClaim ==
    /\ \A w \in Workers, v \in Workers :
        (w # v /\ calls[w].job # NoJob) => calls[w].job # calls[v].job
    /\ \A j \in JobIds : claimed[j] <= 1

\* Two workers of the same model raced for the one job: one holds it, the
\* other has polled and come back empty-handed.
C5_Witness ==
    \E w \in Workers, v \in Workers :
        /\ w # v /\ model[w] = model[v]
        /\ calls[w].job # NoJob /\ pc[w] = "generate"
        /\ pc[v] = "poll" /\ idle[v] = PollTimeout /\ jid[v] = NoJob
        /\ wait = <<>>

\* C6: from the return of claim until the first settlement call starts, also
\* when the worker is killed in between, the job id is in active and in
\* neither wait, completed nor failed.
C6_ClaimedStaysActive ==
    \A w \in Workers :
        (calls[w].job # NoJob /\ SettleCalls(w) = 0) =>
            /\ InActive(calls[w].job)
            /\ ~InWait(calls[w].job)
            /\ calls[w].job \notin completed \cup failed

\* A worker was killed while it held a claimed, unsettled job.
C6_Witness ==
    \E w \in Workers :
        /\ pc[w] = "crashed"
        /\ calls[w].job # NoJob
        /\ SettleCalls(w) = 0

\* C7: no job is lost: every enqueued id whose hash exists is in wait,
\* active, completed or failed.  Stated for the ids no running worker is in
\* the middle of an operation on, so that a violation is a loss for good.
C7_NoJobLost ==
    \A j \in enqueued :
        (/\ hash[j].exists
         /\ ~\E w \in Workers : Running(w) /\ pc[w] # "poll" /\ jid[w] = j)
        => (InWait(j) \/ InActive(j) \/ j \in completed \/ j \in failed)

\* C8: when the type-mismatch branch of claim returns, claim yields none, the
\* id is out of active and back in wait exactly once, and no hash has changed;
\* whenever a worker looks at a foreign job, claim returns none; and the
\* payload and type field that decide this never change.
C8_RequeueOnMismatch ==
    [][/\ \A w \in Workers :
            (/\ pc[w] = "requeue_lpush"
             /\ pc'[w] \in {"poll", "closed"}
             /\ storeErrs' = storeErrs)
            => /\ ~InList(active', jid[w])
               /\ Occurrences(wait', jid[w]) = 1
               /\ hash' = hash
               /\ calls'[w].job = NoJob
               /\ jid[w] \notin completed' \cup failed'
       /\ \A w \in Workers :
            (pc[w] = "hgetall" /\ Foreign(w, jid[w]))
            => (calls'[w].job = NoJob /\ pc'[w] # "progress0")
       /\ \A j \in JobIds :
            hash[j].exists =>
                (hash'[j].data = hash[j].data /\ hash'[j].type = hash[j].type)
      ]_vars

\* A worker has popped the only waiting job, found it foreign, put it back
\* and returned to polling with one miss counted.
C8_Witness ==
    \E w \in Workers, j \in JobIds :
        /\ pc[w] = "poll" /\ jid[w] = j /\ Foreign(w, j)
        /\ idle[w] = PollTimeout
        /\ storeErrs = 0
        /\ wait = <<j>> /\ ~InActive(j)
        /\ j \notin completed \cup failed

C10_ExecutorFailureSettled ==
    \A w \in Workers :
        (CycleEnd(w) /\ error[w].from = "executor" /\ storeErrs = 0) =>
            /\ calls[w].mf = 1 /\ calls[w].nf = 1 /\ calls[w].mc = 0
            /\ calls[w].job \in failed
            /\ ~InActive(calls[w].job)
            /\ hash[calls[w].job].failedReason # Absent
            /\ hash[calls[w].job].failedReason[1] # ""

\* ----------------------------------------------------------------------
\* Positions inside get_next_job.
ClaimPcs == {"poll", "hgetall", "missing_lrem", "requeue_lrem", "requeue_lpush"}
\* The worker took this step.
Acted(w) == pc'[w] # pc[w] \/ written'[w] # written[w]
NonDecreasing(s) == \A i \in 1..Len(s) : \A k \in i..Len(s) : s[i] <= s[k]
CeilDiv(a, b) == (a + b - 1) \div b

\* C11: when the Result Sink raised after the Executor had succeeded, the job
\* is settled as for an Executor failure: mark_failed and notify_failed are
\* called once each, mark_completed and notify_complete never, the id is never
\* added to completed, and the cycle ends with the id in failed, out of
\* active, and failedReason holding str(e).  The end state is stated for runs
\* in which no Redis command has failed.
C11_ResultSinkFailureSettled ==
    \A w \in Workers :
        error[w].from = "result sink" =>
            /\ calls[w].mc = 0 /\ calls[w].nc = 0
            /\ calls[w].job \notin completed
            /\ (CycleEnd(w) /\ storeErrs = 0) =>
                /\ calls[w].mf = 1 /\ calls[w].nf = 1
                /\ calls[w].job \in failed
                /\ ~InActive(calls[w].job)
                /\ hash[calls[w].job].failedReason = Some(Str(error[w]))

\* The upload failed after a successful generate(); the cycle has ended.
C11_Witness ==
    \E w \in Workers :
        /\ CycleEnd(w) /\ error[w].from = "result sink" /\ storeErrs = 0
        /\ written[w][Len(written[w])] = 90
        /\ calls[w].job \in failed

\* C12: a worker leaves through the idle shutdown after exactly
\* ceil(MAX_IDLE_SECONDS / 5) consecutive misses, never earlier: with
\* MAX_IDLE_SECONDS = 10 after exactly 2.
C12_IdleShutdown ==
    /\ CeilDiv(MAX_IDLE_SECONDS, PollTimeout) = 2
    /\ \A w \in Workers :
        /\ pc[w] = "closed" => misses[w] = CeilDiv(MAX_IDLE_SECONDS, PollTimeout)
        /\ Running(w) => misses[w] < CeilDiv(MAX_IDLE_SECONDS, PollTimeout)

\* A worker processed a job (which reset its idle accumulator), then missed
\* twice in a row and shut down.
C12_Witness ==
    \E w \in Workers, j \in JobIds :
        /\ pc[w] = "closed" /\ misses[w] = 2
        /\ <<w, j>> \in touched /\ j \in completed

\* Where a worker may stand after a Redis command raised at the position.
AfterStoreError(at) ==
    CASE at \in ClaimPcs -> {"poll", "closed"}
      [] at = "progress0" -> {"prepare"}
      [] at = "prepare" -> {"prepare", "generate"}
      [] at = "generate" -> {"generate", "upload"}
      [] at = "upload" -> {"mc_hset"}
      [] at \in {"mc_hset", "mc_lrem", "mc_zadd"} -> {"notify_complete"}
      [] at \in {"mf_hset", "mf_lrem", "mf_zadd"} -> {"notify_failed"}
      [] OTHER -> {}

\* C13: a RedisError raised inside get_next_job, update_progress,
\* mark_completed or mark_failed is caught there: get_next_job returns None
\* (a miss), the others return normally, the worker goes on to its next step
\* and main()'s except branch is not entered.
C13_StoreErrorsContained ==
    [][storeErrs' # storeErrs =>
        \A w \in Workers :
            /\ error'[w] = error[w]
            /\ Acted(w) =>
                /\ pc'[w] \in AfterStoreError(pc[w])
                /\ pc[w] \in ClaimPcs =>
                    (calls'[w].job = NoJob /\ misses'[w] = misses[w] + 1)
      ]_vars

\* The HSET of mark_completed raised; the worker went on to notify_complete.
C13_Witness ==
    \E w \in Workers :
        /\ pc[w] = "notify_complete" /\ storeErrs = 1
        /\ hash[calls[w].job].returnvalue = Absent
        /\ InActive(calls[w].job)

\* C14: when a settlement was interrupted, by a RedisError or by the worker
\* being killed, after some of its commands, so that the id has reached
\* neither completed nor failed, the id is still in active.
C14_InterruptedSettlementStaysActive ==
    \A w \in Workers :
        (/\ calls[w].job # NoJob
         /\ SettleCalls(w) = 1
         /\ pc[w] \in {"notify_complete", "notify_failed", "crashed"}
         /\ calls[w].job \notin completed \cup failed)
        => InActive(calls[w].job)

\* C15: for each claimed job exactly one notifier hook is called, the one
\* matching its settlement, and no notifier failure comes back into main():
\* the except branch is never entered from the notifier and no exception
\* leaves it.
C15_OneNotifierHook ==
    \A w \in Workers :
        /\ calls[w].nc + calls[w].nf <= 1
        /\ CycleEnd(w) => calls[w].nc + calls[w].nf = 1
        /\ calls[w].nc = 1 => calls[w].mf = 0
        /\ error[w].from # "notifier"
        /\ pc[w] # "finally_raise"

\* C16: no exception raised during a job cycle ends main(): a worker stops
\* only through the idle shutdown (or by being killed).
C16_OnlyIdleShutdown == \A w \in Workers : pc[w] # "dead"

C18_ScratchRemoved ==
    \A w \in Workers : pc[w] \in ClaimPcs => scratch[w].disk = {}

\* C19: no step deletes a job hash or changes its payload: a hash that
\* exists keeps existing, and the hashes of completed and failed jobs exist.
C19_HashNeverDeleted ==
    [][\A j \in JobIds :
        /\ hash[j].exists => (hash'[j].exists /\ hash'[j].data = hash[j].data)
        /\ (j \in completed' \cup failed' /\ j \notin completed \cup failed)
                => hash'[j].exists
      ]_vars

\* A worker failed one job, sent another back to wait as foreign and shut
\* down; both hashes are still there.
C19_Witness ==
    \E w \in Workers, j \in JobIds, k \in JobIds :
        /\ pc[w] = "closed"
        /\ j \in failed /\ hash[j].exists /\ hash[j].failedReason # Absent
        /\ k # j /\ InWait(k) /\ hash[k].exists /\ Foreign(w, k)

\* C20: a RedisError at any command of get_next_job leaves wait and active
\* as they were before the call: at the BRPOPLPUSH nothing has moved, and
\* after it the popped id is back in wait and out of active.
C20_ClaimErrorIsNoOp ==
    [][\A w \in Workers :
        (pc[w] \in ClaimPcs /\ Acted(w) /\ storeErrs' # storeErrs) =>
            IF pc[w] = "poll"
            THEN wait' = wait /\ active' = active
            ELSE InList(wait', jid[w]) /\ ~InList(active', jid[w])
      ]_vars

\* ----------------------------------------------------------------------
\* The worker took a step of its own code in which no Redis command raised.
Stepped(w) == Acted(w) /\ storeErrs' = storeErrs /\ crashes' = crashes
\* Both hashes exist and their payloads carry the same type.
SameType(j, k) ==
    /\ hash[j].exists /\ hash[k].exists
    /\ hash[j].data.wellformed /\ hash[k].data.wellformed
    /\ hash[j].data.type = hash[k].data.type

C22_FifoSameType ==
    (\A w \in Workers, v \in Workers : w # v => model[w] # model[v]) =>
        ((SameType("j1", "j2") /\ claimed["j2"] >= 1) => claimed["j1"] >= 1)

\* C23: when claim pops an id whose hash is missing, it takes the missing-hash
\* branch, which removes the id from active, does not put it into wait,
\* settles and notifies nothing, writes no hash, and returns None.
C23_MissingHashDropped ==
    [][\A w \in Workers :
        /\ (/\ pc[w] = "hgetall" /\ Stepped(w)
            /\ ~hash[jid[w]].exists)
           => (pc'[w] = "missing_lrem" /\ store' = store /\ calls'[w] = NoCalls)
        /\ (pc[w] = "missing_lrem" /\ Stepped(w))
           => /\ ~InList(active', jid[w])
              /\ ~InList(wait', jid[w])
              /\ wait' = wait /\ completed' = completed /\ failed' = failed
              /\ hash' = hash
              /\ calls'[w] = NoCalls
              /\ pc'[w] \in {"poll", "closed"}
              /\ misses'[w] = misses[w] + 1
      ]_vars

\* A worker popped a stray id, dropped it and is polling again.
C23_Witness ==
    \E w \in Workers, j \in JobIds :
        /\ pc[w] = "poll" /\ jid[w] = j /\ storeErrs = 0
        /\ j \in enqueued /\ ~hash[j].exists
        /\ ~InWait(j) /\ ~InActive(j)
        /\ j \notin completed \cup failed
        /\ misses[w] = 1

\* C24: when claim pops an id whose payload cannot be decoded to a map, claim
\* returns None, the id stays in active, nothing else changes in the store,
\* and the worker polls on.
C24_UndecodableParked ==
    [][\A w \in Workers :
        (/\ pc[w] = "hgetall" /\ Stepped(w)
         /\ hash[jid[w]].exists /\ ~hash[jid[w]].data.wellformed)
        => /\ pc'[w] \in {"poll", "closed"}
           /\ store' = store
           /\ InList(active', jid[w])
           /\ calls'[w] = NoCalls
      ]_vars

\* C25: returnvalue is set only on a job in completed, failedReason only on a
\* job in failed, and no hash carries both.
C25_ResultOnlyWhenTerminal ==
    \A j \in JobIds :
        /\ hash[j].returnvalue # Absent => j \in completed
        /\ hash[j].failedReason # Absent => j \in failed
        /\ ~(hash[j].returnvalue # Absent /\ hash[j].failedReason # Absent)

\* C26: processedOn is set on claim: a claimed job that is not yet settled
\* has processedOn, and so has every failed job.
C26_ProcessedOnSetOnClaim ==
    /\ \A w \in Workers :
        (calls[w].job # NoJob /\ SettleCalls(w) = 0) =>
            hash[calls[w].job].processedOn # Absent
    /\ \A j \in failed : hash[j].processedOn # Absent

\* C27: terminal states are stable: no step puts an id that is in completed
\* or failed into wait or active, has it claimed again, takes it out of its
\* terminal set or adds it to the other one.
C27_TerminalStable ==
    [][\A j \in JobIds :
        j \in completed \cup failed =>
            /\ ~InList(wait', j) /\ ~InList(active', j)
            /\ claimed'[j] = claimed[j]
            /\ (j \in completed') = (j \in completed)
            /\ (j \in failed') = (j \in failed)
      ]_vars

\* C28: progress, returnvalue and failedReason of a job are written only by
\* the worker that claimed it, while the id is in active and in neither
\* terminal set.
C28_WritesByClaimHolder ==
    [][\A j \in JobIds :
        (\/ hash'[j].progress # hash[j].progress
         \/ hash'[j].returnvalue # hash[j].returnvalue
         \/ hash'[j].failedReason # hash[j].failedReason)
        => \E w \in Workers :
            /\ Acted(w) /\ calls[w].job = j
            /\ InActive(j)
            /\ j \notin completed \cup failed
      ]_vars

\* C29: the idle accumulator counts only the misses since the last claimed
\* job: it is the poll timeout times the consecutive misses, zero while a job
\* is held, and at least MAX_IDLE_SECONDS when the worker has shut down.
C29_IdleResetOnHit ==
    \A w \in Workers :
        /\ idle[w] = PollTimeout * misses[w]
        /\ (calls[w].job # NoJob /\ Running(w)) => idle[w] = 0
        /\ pc[w] = "closed" => idle[w] >= MAX_IDLE_SECONDS

\* A worker missed once (it popped and dropped the stray j2, which the other
\* worker, not having polled yet, cannot have done) and then claimed j1: its
\* accumulator is back at zero.
C29_Witness ==
    \E w \in Workers, v \in Workers :
        /\ w # v /\ crashes = 0 /\ storeErrs = 0
        /\ pc[w] = "progress0" /\ calls[w].job = "j1" /\ idle[w] = 0
        /\ "j2" \in enqueued /\ ~hash["j2"].exists
        /\ ~InWait("j2") /\ ~InActive("j2")
        /\ pc[v] = "poll" /\ misses[v] = 0
        /\ \A j \in JobIds : <<v, j>> \notin touched

\* C30: an Executor call that does not return is cut off and handled as a
\* failure: a running worker that holds a job can always take its next step
\* towards settlement.
C30_ExecutorDeadline ==
    \A w \in Workers :
        (Running(w) /\ calls[w].job # NoJob) => ENABLED WorkerNext(w)

\* ----------------------------------------------------------------------
\* floor(num/100 * p) in exact arithmetic.
FloorScale(p, num) == (p * num) \div 100
\* The factor of each model's rescaling, in hundredths.
Factor(m) ==
    CASE m = "zimage" -> 85
      [] m = "wav2lip" -> 70
      [] m = "ltx2" -> 80
\* The marker written just before the Executor is invoked.
LowerBound(m) == PreMarkers(m)[Len(PreMarkers(m))]
Last(s) == s[Len(s)]
\* The range, end-point and monotonicity part of C31, for the value v that
\* model m's callback wrote for p.
RescaledInRange(m, p, v) ==
    /\ v \in LowerBound(m)..UploadMarker
    /\ p = 0 => v = LowerBound(m)
    /\ p = 100 => v = UploadMarker
    /\ \A q \in 0..p : on_progress(m, q) <= v

\* C31 as claimed: the value the callback writes for p is
\* lower + floor(factor * p), inside lower..90, with 0 mapped to the lower
\* bound and 100 to 90, non-decreasing in p (ltx2, whose worker does not
\* get as far as a callback, as the function its main() defines).
C31_RescaleFloor ==
    /\ \A w \in Workers :
        callbacks[w] # <<>> =>
            /\ Last(written[w]) =
                    LowerBound(model[w]) + FloorScale(Last(callbacks[w]), Factor(model[w]))
            /\ RescaledInRange(model[w], Last(callbacks[w]), Last(written[w]))
    /\ \A p \in ExecutorRange :
        on_progress("ltx2", p) = 10 + FloorScale(p, Factor("ltx2"))

\* C31 amended: as claimed, except that the wav2lip callback writes 82, not
\* 83, for p = 90.
C31_RescaleDouble ==
    /\ \A w \in Workers :
        callbacks[w] # <<>> =>
            LET m == model[w]
                p == Last(callbacks[w])
                v == Last(written[w])
            IN  /\ IF m = "wav2lip" /\ p = 90
                   THEN v = 82
                   ELSE v = LowerBound(m) + FloorScale(p, Factor(m))
                /\ RescaledInRange(m, p, v)
    /\ \A p \in ExecutorRange :
        /\ on_progress("ltx2", p) = 10 + FloorScale(p, Factor("ltx2"))
        /\ on_progress("ltx2", p) \in 10..UploadMarker

\* The wav2lip callback has been called with 90 and has written 82.
C31_Witness ==
    \E w \in Workers :
        /\ model[w] = "wav2lip" /\ callbacks[w] = <<90>>
        /\ Last(written[w]) = 82
        /\ hash[jid[w]].progress = Some(82)

\* ----------------------------------------------------------------------
\* The id is one the worker would claim: a decodable payload of its type.
Own(w, j) ==
    /\ hash[j].exists
    /\ hash[j].data.wellformed
    /\ TypeMatches(w, hash[j])

\* C32: a worker does not shut down while a job of its own type is in wait:
\* no step takes a worker to the closed state with such a job in wait.
C32_NoShutdownWhileOwnJobWaits ==
    [][\A w \in Workers :
        (pc[w] # "closed" /\ pc'[w] = "closed")
        => \A j \in JobIds : ~(InList(wait', j) /\ Own(w, j))
      ]_vars

\* C33: when a loaded queue is drained by one worker per type without store
\* errors or crashes, every job gets settled; in particular no worker has
\* shut down while a job of its type, which no other worker will take, is
\* still unsettled.
C33_EveryJobSettled ==
    \A w \in Workers : \A j \in JobIds :
        (pc[w] = "closed" /\ Own(w, j)) => j \in completed \cup failed

\* The worker has not polled yet (no job has been claimed so far).
NotStarted(v) == pc[v] = "poll" /\ misses[v] = 0 /\ jid[v] = NoJob

C35_ShutdownFromPolling ==
    [][\A w \in Workers :
        /\ (pc[w] # "closed" /\ pc'[w] = "closed")
           => /\ pc[w] \in ClaimPcs
              /\ calls[w] = NoCalls /\ calls'[w] = NoCalls
              /\ written'[w] = <<>>
        /\ pc[w] = "closed"
           => /\ ~Acted(w)
              /\ calls'[w] = calls[w] /\ jid'[w] = jid[w]
              /\ {t \in touched' : t[1] = w} = {t \in touched : t[1] = w}
      ]_vars

\* A worker has shut down while the other one is in the middle of a job.
C35_Witness ==
    \E w \in Workers : \E v \in Workers :
        /\ pc[w] = "closed" /\ calls[w] = NoCalls
        /\ v # w /\ calls[v].job # NoJob /\ InActive(calls[v].job)
        /\ pc[v] = "upload"

\* C36: the notifier reflects the store: notify_complete has been called for
\* a job only when its id is in completed, notify_failed only when its id is
\* in failed.
C36_NotifierReflectsStore ==
    \A w \in Workers :
        /\ calls[w].nc >= 1 => calls[w].job \in completed
        /\ calls[w].nf >= 1 => calls[w].job \in failed

\* C37: no id occurs twice in wait, twice in active, or in both.
C37_NoDuplicateIds ==
    \A j \in JobIds : Occurrences(wait, j) + Occurrences(active, j) <= 1

\* One worker has requeued a foreign job, which is back in wait, while the
\* other is working on a job that is in active.
C37_Witness ==
    \E w \in Workers : \E v \in Workers : \E j \in JobIds :
        /\ w # v /\ pc[w] = "poll" /\ jid[w] = j /\ Foreign(w, j)
        /\ Occurrences(wait, j) = 1 /\ ~InActive(j)
        /\ calls[v].job # NoJob /\ calls[v].job # j
        /\ Occurrences(active, calls[v].job) = 1

\* C38: when no store command has failed, every job in completed has
\* progress 100; and no step changes the progress of a job in completed.
C38_CompletedAtFullProgress ==
    [][/\ storeErrs' = 0 =>
            \A j \in completed' : hash'[j].progress = Some(100)
       /\ \A j \in completed : hash'[j].progress = hash[j].progress
      ]_vars

\* A job has been completed with every store command succeeding.
C38_Witness ==
    \E w \in Workers :
        /\ storeErrs = 0 /\ pc[w] = "notify_complete"
        /\ calls[w].job \in completed
        /\ hash[calls[w].job].progress = Some(100)
        /\ Last(written[w]) = 100

\* The list and set commands of mark_completed and of mark_failed, applied
\* to the lists as they are.
SettleLists(a_list, set, id) == [active |-> LRem1(a_list, id), members |-> set \cup {id}]
Ids(s) == {s[i] : i \in 1..Len(s)}

\* C39: settling an id twice leaves active, completed and failed holding the
\* same ids as settling it once, and takes no other id off active.
C39_SettlementIdempotent ==
    \A j \in JobIds : \A set \in {completed, failed} :
        LET once == SettleLists(active, set, j)
            twice == SettleLists(once.active, once.members, j)
        IN  /\ Ids(twice.active) = Ids(once.active)
            /\ twice.members = once.members
            /\ j \in twice.members /\ j \notin Ids(twice.active)
            /\ \A k \in JobIds \ {j} :
                    Occurrences(twice.active, k) = Occurrences(active, k)

\* A settled job is out of active and in its terminal set while another id
\* is in active: a second settlement would have something to take off.
C39_Witness ==
    \E w \in Workers : \E j \in JobIds : \E k \in JobIds :
        /\ <<w, j>> \in touched /\ j \in completed /\ ~InActive(j)
        /\ k # j /\ InActive(k)

\* ----------------------------------------------------------------------
\* The order of the statuses of a job in job_dict.
StatusMoves ==
    {<<"absent", "queued">>, <<"queued", "processing">>,
     <<"processing", "completed">>, <<"processing", "failed">>}

\* C40: a job's status only moves queued -> processing -> completed or
\* failed, a terminal status is never overwritten, a process_job call that
\* has returned has left a terminal status, and status() for an id generate()
\* returned never answers "not found".
C40_ModalStatusForward ==
    [][\A i \in ModalIds :
        /\ job_dict'[i] # job_dict[i] => <<job_dict[i], job_dict'[i]>> \in StatusMoves
        /\ job_dict[i] \in TerminalStatus => job_dict'[i] = job_dict[i]
        /\ process_job'[i] = "returned" => job_dict'[i] \in TerminalStatus
        /\ seen'[i] # "not found"
      ]_vars

====
